---- MODULE Spec2Model ----
(***************************************************************************)
(* Model of BentoML's serving topology construction:                       *)
(*   bentoml/serve.py            ensure_prometheus_dir, serve_development, *)
(*                               serve_production                          *)
(*   bentoml_cli/server/http_api_server.py   main                          *)
(* One invocation of one entry point is one behaviour.  The service, the    *)
(* platform, the TLS configuration, the state of the metrics directory and *)
(* the launch parameters are inputs chosen in Init; failures of external   *)
(* calls (Watcher construction, arbiter creation, track_serve, start) are  *)
(* nondeterministic outcomes of the step that makes the call.  Python      *)
(* assert statements are modelled as enabled (the default interpreter      *)
(* mode).  tempfile.mkdtemp is modelled as succeeding.                      *)
(***************************************************************************)
EXTENDS Integers, Sequences, FiniteSets, TLC

(* ------------------------------ bounds --------------------------------- *)
MaxRunners == 2

(* --------------------------- program constants ------------------------- *)
SCRIPT_RUNNER == "bentoml_cli.server.runner"
SCRIPT_API_SERVER == "bentoml_cli.server.http_api_server"
SCRIPT_DEV_API_SERVER == "bentoml_cli.server.http_dev_api_server"
MAX_AF_UNIX_PATH_LENGTH == 103
API_SERVER_SOCKET == "_bento_api_server"

(* Optional values: None is the empty sequence, a present value v is <<v>>. *)
None == <<>>
Some(v) == <<v>>

(* ------------------------------ inputs --------------------------------- *)
bento_identifier == "iris:latest"
working_dir == "/srv/bento"
ApiBind == [host |-> "0.0.0.0", port |-> 3000, backlog |-> 2048]

RunnerNames == {"embedder", "classifier", API_SERVER_SOCKET}
\* str(id(runner)): decimal digits of the object's address (14 or 15 digits)
RunnerIds == {"94013745612304", "140213745612304"}
RunnerDescriptors == [name : RunnerNames, id : RunnerIds, scheduled_worker_count : {2}]

RECURSIVE SeqsUpTo(_, _)
SeqsUpTo(S, n) ==
    IF n = 0 THEN {<<>>}
    ELSE LET shorter == SeqsUpTo(S, n - 1)
         IN  shorter \cup {Append(s, e) : s \in {t \in shorter : Len(t) = n - 1}, e \in S}

Services == SeqsUpTo(RunnerDescriptors, MaxRunners)

Platforms == {"posix", "windows", "other"}

\* directories tempfile.mkdtemp() can return for the socket directory: the
\* default /tmp/tmpXXXXXXXX (16 characters) and one under a long TMPDIR (82)
TmpDirShort == "/tmp/tmpq3x9f1aa"
TmpDirLong == "/var/folders/zz/zyxvpxvq6csfxvn_n0000000000000/T/com.example.bentoml.s/tmpq3x9f1aa"
UdsTmpDirs == {TmpDirShort, TmpDirLong}
PrometheusAlternative == "/tmp/tmpm8k2c7pp"
PrometheusConfigured == "/home/bento/bentoml/prometheus_multiproc_dir"

\* loopback ports reserve_free_port() can hand out
FreePorts == 50001 .. (50001 + MaxRunners)

TLSParams == {"ssl_keyfile", "ssl_certfile", "ssl_keyfile_password", "ssl_version",
              "ssl_cert_reqs", "ssl_ca_certs", "ssl_ciphers"}
IntTLSParams == {"ssl_version", "ssl_cert_reqs"}
StrTLSValues == {"", "tls.pem"}
IntTLSValues == {0, 2}
StrTLSParams == TLSParams \ IntTLSParams
TLSConfigs ==
    {[p \in TLSParams |-> IF p \in IntTLSParams THEN ti[p] ELSE ts[p]] :
        ti \in [IntTLSParams -> {None} \cup {Some(v) : v \in IntTLSValues}],
        ts \in [StrTLSParams -> {None} \cup {Some(v) : v \in StrTLSValues}]}
OnlyKeyAndCert == [p \in TLSParams |->
                     IF p \in {"ssl_keyfile", "ssl_certfile"} THEN Some("tls.pem") ELSE None]
NoTLS == [p \in TLSParams |-> None]

(* ------------------------------ helpers -------------------------------- *)
Digit(d) == CASE d = 0 -> "0" [] d = 1 -> "1" [] d = 2 -> "2" [] d = 3 -> "3"
              [] d = 4 -> "4" [] d = 5 -> "5" [] d = 6 -> "6" [] d = 7 -> "7"
              [] d = 8 -> "8" [] d = 9 -> "9"

\* str(n) for a non-negative int
RECURSIVE Str(_)
Str(n) == IF n < 10 THEN Digit(n) ELSE Str(n \div 10) \o Digit(n % 10)

\* a dict as the sequence of its <<key, value>> items in insertion order
DictKeys(d) == {d[k][1] : k \in DOMAIN d}
DictHas(d, key) == key \in DictKeys(d)
DictGet(d, key) == LET at == CHOOSE k \in DOMAIN d : d[k][1] = key IN d[at][2]
DictSet(d, key, value) ==
    IF DictHas(d, key)
    THEN [k \in DOMAIN d |-> IF d[k][1] = key THEN <<key, value>> ELSE d[k]]
    ELSE Append(d, <<key, value>>)
DictValues(d) == [k \in DOMAIN d |-> d[k][2]]

\* json.dumps of a str -> str dict
RECURSIVE JsonItems(_, _)
JsonItems(d, k) ==
    IF k > Len(d) THEN ""
    ELSE (IF k > 1 THEN ", " ELSE "")
         \o "\"" \o d[k][1] \o "\": \"" \o d[k][2] \o "\"" \o JsonItems(d, k + 1)
JsonDumps(d) == "{" \o JsonItems(d, 1) \o "}"

\* os.path.join(uds_path, f"{id(runner)}.sock")
SocketsPath(uds, runner) == uds \o "/" \o runner.id \o ".sock"

\* path_to_uri(sockets_path): the connectable address of a local socket
PathToUri(path) == "unix://" \o path

\* CircusSocket(name=..., path=..., backlog=...) / CircusSocket(name=..., host=..., port=..., backlog=...)
UnixSocket(name, path, backlog) ==
    [name |-> name, kind |-> "unix", path |-> path, host |-> "", port |-> 0, backlog |-> backlog]
TcpSocket(name, host, port, backlog) ==
    [name |-> name, kind |-> "tcp", path |-> "", host |-> host, port |-> port, backlog |-> backlog]

\* the substitution the supervisor replaces by the file descriptor of a socket
FdOfSocket(name) == "fd://$(circus.sockets." \o name \o ")"

\* Watcher(...) without numprocesses runs circus' default of one process
DefaultNumprocesses == 1
Watcher(name, args, numprocesses) ==
    [name |-> name, args |-> args, numprocesses |-> numprocesses, use_sockets |-> TRUE]

(* ------------------------------ state ---------------------------------- *)
VARIABLES
    entry,              \* which entry point this invocation runs
    platform,           \* psutil.POSIX / psutil.WINDOWS / neither
    runners,            \* svc.runners
    tls,                \* the seven optional ssl_* parameters
    prom_fs,            \* state of the configured metrics directory on disk
    prom_err,           \* the error its file operations raise, if any
    worker_id,          \* http_api_server --worker-id
    bind,               \* http_api_server --bind (list of characters)
    pc,                 \* position in the entry point
    exc,                \* exception that ended the invocation, "" if none
    loaded,             \* the service was loaded by this process
    prometheus_dir,     \* local prometheus_dir
    container_dir,      \* BentoMLContainer.prometheus_multiproc_dir
    warnings,           \* logger.warning records
    fs_dirs,            \* temporary directories that exist on disk
    rmtree_calls,       \* directories shutil.rmtree removed, in order
    uds_path,           \* local uds_path
    i,                  \* index of the next runner of the for loop
    port_stack,         \* ports held by the ExitStack
    watchers,           \* local watchers
    circus_socket_map,  \* local circus_socket_map (production)
    circus_sockets,     \* local circus_sockets (development, standalone parent)
    runner_bind_map,    \* local runner_bind_map
    arbiter,            \* the arbiter made by create_standalone_arbiter
    tracking,           \* inside the track_serve scope
    uvicorn_options,    \* options given to uvicorn.Config
    served              \* sockets given to uvicorn.Server.run

vars == <<entry, platform, runners, tls, prom_fs, prom_err, worker_id, bind, pc, exc,
          loaded, prometheus_dir, container_dir, warnings, fs_dirs, rmtree_calls,
          uds_path, i, port_stack, watchers, circus_socket_map, circus_sockets,
          runner_bind_map, arbiter, tracking, uvicorn_options, served>>

inputs == <<entry, platform, runners, tls, prom_err, worker_id, bind>>

PromFsStates == {"missing", "empty", "nonempty", "file"}
PromErrors == {"none", "OSError", "shutil.Error"}

(* ---------------------- ensure_prometheus_dir -------------------------- *)
\* the exception raised inside the try block, "none" if it returns
PrometheusDirThrown(fs, err, clean) ==
    CASE fs = "missing"  -> err                               \* path.mkdir(parents=True)
      [] fs = "empty"    -> err                               \* any(path.iterdir())
      [] fs = "nonempty" -> IF err # "none" THEN err
                            ELSE IF clean THEN "none" ELSE "RuntimeError"
      [] fs = "file"     -> IF ~clean THEN "RuntimeError"
                            ELSE IF err = "none" THEN "OSError" ELSE err  \* rmtree of a non-directory

\* variant: a failure is always re-raised, the alternative is never used
ensure_prometheus_dir_reraise(directory, fs, err, clean, use_alternative) ==
    LET thrown == PrometheusDirThrown(fs, err, clean) IN
    IF thrown = "none"
    THEN [raised |-> "", result |-> directory, fs |-> IF fs = "file" THEN fs ELSE "empty",
          warned |-> FALSE, container |-> directory]
    ELSE [raised |-> "RuntimeError", result |-> "", fs |-> fs,
          warned |-> FALSE, container |-> directory]

ensure_prometheus_dir(directory, fs, err, clean, use_alternative) ==
    LET thrown == PrometheusDirThrown(fs, err, clean) IN
    IF thrown = "none"
    THEN [raised |-> "", result |-> directory, fs |-> IF fs = "file" THEN fs ELSE "empty",
          warned |-> FALSE, container |-> directory]
    ELSE IF thrown = "RuntimeError" \/ ~use_alternative
    THEN [raised |-> "RuntimeError", result |-> "", fs |-> fs,
          warned |-> FALSE, container |-> directory]
    ELSE [raised |-> "", result |-> PrometheusAlternative, fs |-> fs,
          warned |-> TRUE, container |-> PrometheusAlternative]

(* -------------------------------- Init --------------------------------- *)
\* --bind values an operator or the supervisor can pass to http_api_server
BindTcp == <<"t","c","p",":","/","/","0",".","0",".","0",".","0",":","3","0","0","0">>
BindUnix == <<"u","n","i","x",":","/","/","/","t","m","p","/","a",".","s","o","c","k">>
BindFd == <<"f","d",":","/","/","7">>
BindPlain == <<"0",".","0",".","0",".","0",":","3","0","0","0">>
BindTcpBare == <<"t","c","p",":","/","/","3","0","0","0">>
Binds == {BindTcp, BindUnix, BindFd, BindPlain, BindTcpBare}

InitLocals ==
    /\ pc = "entry"
    /\ exc = ""
    /\ loaded = FALSE
    /\ prometheus_dir = None
    /\ container_dir = PrometheusConfigured
    /\ warnings = <<>>
    /\ fs_dirs = {}
    /\ rmtree_calls = <<>>
    /\ uds_path = None
    /\ i = 0
    /\ port_stack = {}
    /\ watchers = <<>>
    /\ circus_socket_map = <<>>
    /\ circus_sockets = <<>>
    /\ runner_bind_map = <<>>
    /\ arbiter = None
    /\ tracking = FALSE
    /\ uvicorn_options = None
    /\ served = None

\* serve_production / serve_development over every service, platform and
\* metrics-directory state
InitTopology ==
    /\ entry \in {"serve_production", "serve_development"}
    /\ platform \in Platforms
    /\ runners \in Services
    /\ tls \in {NoTLS, OnlyKeyAndCert}
    /\ prom_fs \in PromFsStates
    /\ prom_err \in PromErrors
    /\ worker_id = None
    /\ bind = BindTcp

\* serve_production / serve_development over every TLS configuration
InitTLS ==
    /\ entry \in {"serve_production", "serve_development"}
    /\ platform = "posix"
    /\ runners = <<>>
    /\ tls \in TLSConfigs
    /\ prom_fs = "empty"
    /\ prom_err = "none"
    /\ worker_id = None
    /\ bind = BindTcp

\* the API-server entry point over every launch parameter
InitApiServer ==
    /\ entry = "http_api_server"
    /\ platform \in {"posix", "windows"}
    /\ runners = <<>>
    /\ \/ worker_id = None /\ tls \in {NoTLS, OnlyKeyAndCert}
                           /\ prom_fs \in {"empty", "missing"} /\ prom_err \in {"none", "OSError"}
       \/ worker_id \in {Some(0), Some(1)} /\ tls \in TLSConfigs
                           /\ prom_fs = "empty" /\ prom_err = "none"
    /\ bind \in Binds

Init == InitLocals /\ (InitTopology \/ InitTLS \/ InitApiServer)

(* --------------------------- shared steps ------------------------------ *)
Raise(e) ==
    /\ pc' = "raised"
    /\ exc' = e
    /\ tracking' = FALSE

\* svc = load(bento_identifier, working_dir=working_dir, ...)
Load ==
    /\ pc = "entry"
    /\ entry \in {"serve_production", "serve_development"}
    /\ loaded' = TRUE
    /\ pc' = "prometheus"
    /\ UNCHANGED <<inputs, prom_fs, exc, prometheus_dir, container_dir, warnings, fs_dirs,
                   rmtree_calls, uds_path, i, port_stack, watchers, circus_socket_map,
                   circus_sockets, runner_bind_map, arbiter, tracking, uvicorn_options, served>>

\* prometheus_dir = ensure_prometheus_dir()
ServeEnsurePrometheusDir ==
    /\ pc = "prometheus"
    /\ LET r == ensure_prometheus_dir(container_dir, prom_fs, prom_err, TRUE, TRUE) IN
       /\ prom_fs' = r.fs
       /\ container_dir' = r.container
       /\ warnings' = IF r.warned THEN Append(warnings, r.result) ELSE warnings
       /\ fs_dirs' = IF r.warned THEN fs_dirs \cup {r.result} ELSE fs_dirs
       /\ IF r.raised # ""
          THEN Raise(r.raised) /\ UNCHANGED prometheus_dir
          ELSE /\ prometheus_dir' = Some(r.result)
               /\ pc' = IF entry = "serve_production" THEN "platform" ELSE "dev_build"
               /\ UNCHANGED <<exc, tracking>>
    /\ UNCHANGED <<inputs, loaded, rmtree_calls, uds_path, i, port_stack, watchers,
                   circus_socket_map, circus_sockets, runner_bind_map, arbiter,
                   uvicorn_options, served>>

promvars == <<prom_fs, prometheus_dir, container_dir, warnings>>
leafvars == <<uvicorn_options, served>>

\* api_workers=None, CpuResource.from_system() of the host
ServeOptions == [api_workers |-> None, cpu |-> 4]

(* -------------------------- serve_production --------------------------- *)
\* variant: the integer options are tested for truth instead of "is not None"
ProdTlsArgsTruthy(t) ==
    (IF t["ssl_keyfile"] # None THEN <<"--ssl-keyfile", t["ssl_keyfile"][1]>> ELSE <<>>)
    \o (IF t["ssl_certfile"] # None THEN <<"--ssl-certfile", t["ssl_certfile"][1]>> ELSE <<>>)
    \o (IF t["ssl_keyfile_password"] # None
        THEN <<"--ssl-keyfile-password", t["ssl_keyfile_password"][1]>> ELSE <<>>)
    \o (IF t["ssl_version"] # None /\ t["ssl_version"][1] # 0
        THEN <<"--ssl-version", Str(t["ssl_version"][1])>> ELSE <<>>)
    \o (IF t["ssl_cert_reqs"] # None /\ t["ssl_cert_reqs"][1] # 0
        THEN <<"--ssl-cert-reqs", Str(t["ssl_cert_reqs"][1])>> ELSE <<>>)
    \o (IF t["ssl_ca_certs"] # None THEN <<"--ssl-ca-certs", t["ssl_ca_certs"][1]>> ELSE <<>>)
    \o (IF t["ssl_ciphers"] # None THEN <<"--ssl-ciphers", t["ssl_ciphers"][1]>> ELSE <<>>)

\* "Add optional SSL args if they exist"
ProdTlsArgs(t) ==
    (IF t["ssl_keyfile"] # None THEN <<"--ssl-keyfile", t["ssl_keyfile"][1]>> ELSE <<>>)
    \o (IF t["ssl_certfile"] # None THEN <<"--ssl-certfile", t["ssl_certfile"][1]>> ELSE <<>>)
    \o (IF t["ssl_keyfile_password"] # None
        THEN <<"--ssl-keyfile-password", t["ssl_keyfile_password"][1]>> ELSE <<>>)
    \o (IF t["ssl_version"] # None THEN <<"--ssl-version", Str(t["ssl_version"][1])>> ELSE <<>>)
    \o (IF t["ssl_cert_reqs"] # None
        THEN <<"--ssl-cert-reqs", Str(t["ssl_cert_reqs"][1])>> ELSE <<>>)
    \o (IF t["ssl_ca_certs"] # None THEN <<"--ssl-ca-certs", t["ssl_ca_certs"][1]>> ELSE <<>>)
    \o (IF t["ssl_ciphers"] # None THEN <<"--ssl-ciphers", t["ssl_ciphers"][1]>> ELSE <<>>)

\* variant: --bind names the watcher ("runner_<name>") instead of the socket
ProdRunnerArgsPosixWatcherName(runner) ==
    <<"-m", SCRIPT_RUNNER, bento_identifier, "--runner-name", runner.name,
      "--bind", FdOfSocket("runner_" \o runner.name), "--working-dir", working_dir,
      "--worker-id", "$(CIRCUS.WID)">>

ProdRunnerArgsPosix(runner) ==
    <<"-m", SCRIPT_RUNNER, bento_identifier, "--runner-name", runner.name,
      "--bind", FdOfSocket(runner.name), "--working-dir", working_dir,
      "--worker-id", "$(CIRCUS.WID)">>

ProdRunnerArgsWindows(runner) ==
    <<"-m", SCRIPT_RUNNER, bento_identifier, "--runner-name", runner.name,
      "--bind", FdOfSocket(runner.name), "--working-dir", working_dir,
      "--no-access-log", "--worker-id", "$(circus.wid)">>

ProdApiServerArgs(bind_map, prom_dir, t) ==
    <<"-m", SCRIPT_API_SERVER, bento_identifier,
      "--bind", FdOfSocket(API_SERVER_SOCKET),
      "--runner-map", JsonDumps(bind_map),
      "--working-dir", working_dir,
      "--backlog", Str(ApiBind.backlog),
      "--worker-id", "$(CIRCUS.WID)",
      "--prometheus-dir", prom_dir>> \o ProdTlsArgs(t)

\* api_workers or math.ceil(CpuResource.from_system())
ApiNumprocesses ==
    IF ServeOptions.api_workers # None /\ ServeOptions.api_workers # Some(0)
    THEN ServeOptions.api_workers[1] ELSE ServeOptions.cpu

\* if psutil.POSIX: uds_path = tempfile.mkdtemp()
ProdMkdtemp ==
    /\ pc = "platform"
    /\ platform = "posix"
    /\ \E d \in UdsTmpDirs \ fs_dirs :
          /\ uds_path' = Some(d)
          /\ fs_dirs' = fs_dirs \cup {d}
    /\ i' = 1
    /\ pc' = "runners_posix"
    /\ UNCHANGED <<inputs, promvars, leafvars, exc, loaded, rmtree_calls, port_stack, watchers,
                   circus_socket_map, circus_sockets, runner_bind_map, arbiter, tracking>>

\* one iteration of "for runner in svc.runners" on POSIX
ProdRunnerPosix ==
    /\ pc = "runners_posix"
    /\ i <= Len(runners)
    /\ LET runner == runners[i]
           sockets_path == SocketsPath(uds_path[1], runner)
       IN  IF ~(Len(sockets_path) < MAX_AF_UNIX_PATH_LENGTH)
           THEN /\ Raise("AssertionError")
                /\ UNCHANGED <<runner_bind_map, circus_socket_map, watchers, i>>
           ELSE /\ runner_bind_map' = DictSet(runner_bind_map, runner.name, PathToUri(sockets_path))
                /\ circus_socket_map' = DictSet(circus_socket_map, runner.name,
                                                UnixSocket(runner.name, sockets_path, ApiBind.backlog))
                /\ \E ok \in BOOLEAN :
                     IF ok
                     THEN /\ watchers' = Append(watchers,
                                Watcher("runner_" \o runner.name, ProdRunnerArgsPosix(runner),
                                        runner.scheduled_worker_count))
                          /\ i' = i + 1
                          /\ UNCHANGED <<pc, exc, tracking>>
                     ELSE /\ Raise("WatcherError")
                          /\ UNCHANGED <<watchers, i>>
    /\ UNCHANGED <<inputs, promvars, leafvars, loaded, fs_dirs, rmtree_calls, uds_path,
                   port_stack, circus_sockets, arbiter>>

\* elif psutil.WINDOWS: with contextlib.ExitStack() as port_stack
ProdWindowsEnter ==
    /\ pc = "platform"
    /\ platform = "windows"
    /\ port_stack' = {}
    /\ i' = 1
    /\ pc' = "runners_windows"
    /\ UNCHANGED <<inputs, promvars, leafvars, exc, loaded, fs_dirs, rmtree_calls, uds_path,
                   watchers, circus_socket_map, circus_sockets, runner_bind_map, arbiter, tracking>>

\* one iteration of "for runner in svc.runners" on Windows
ProdRunnerWindows ==
    /\ pc = "runners_windows"
    /\ i <= Len(runners)
    /\ LET runner == runners[i]
           runner_host == "127.0.0.1"
       IN  \E runner_port \in FreePorts \ port_stack :
             /\ runner_bind_map' = DictSet(runner_bind_map, runner.name,
                                           "tcp://" \o runner_host \o ":" \o Str(runner_port))
             /\ circus_socket_map' = DictSet(circus_socket_map, runner.name,
                                       TcpSocket(runner.name, runner_host, runner_port, ApiBind.backlog))
             /\ \E ok \in BOOLEAN :
                  IF ok
                  THEN /\ watchers' = Append(watchers,
                             Watcher("runner_" \o runner.name, ProdRunnerArgsWindows(runner),
                                     runner.scheduled_worker_count))
                       /\ i' = i + 1
                       /\ port_stack' = port_stack \cup {runner_port}
                       /\ UNCHANGED <<pc, exc, tracking>>
                  ELSE /\ Raise("WatcherError")
                       /\ port_stack' = {}
                       /\ UNCHANGED <<watchers, i>>
    /\ UNCHANGED <<inputs, promvars, leafvars, loaded, fs_dirs, rmtree_calls, uds_path,
                   circus_sockets, arbiter>>

\* port_stack.enter_context(reserve_free_port()), then the ExitStack closes
ProdWindowsExit ==
    /\ pc = "runners_windows"
    /\ i > Len(runners)
    /\ \E extra \in FreePorts \ port_stack : port_stack' = {}
    /\ pc' = "api_server"
    /\ UNCHANGED <<inputs, promvars, leafvars, exc, loaded, fs_dirs, rmtree_calls, uds_path, i,
                   watchers, circus_socket_map, circus_sockets, runner_bind_map, arbiter, tracking>>

\* else: raise NotImplementedError
ProdUnsupportedPlatform ==
    /\ pc = "platform"
    /\ platform = "other"
    /\ Raise("NotImplementedError")
    /\ UNCHANGED <<inputs, promvars, leafvars, loaded, fs_dirs, rmtree_calls, uds_path, i,
                   port_stack, watchers, circus_socket_map, circus_sockets, runner_bind_map,
                   arbiter>>

\* the API server's socket, argument vector and watcher
ProdApiServer ==
    /\ \/ pc = "api_server"
       \/ pc = "runners_posix" /\ i > Len(runners)
    /\ circus_socket_map' = DictSet(circus_socket_map, API_SERVER_SOCKET,
                              TcpSocket(API_SERVER_SOCKET, ApiBind.host, ApiBind.port, ApiBind.backlog))
    /\ \E ok \in BOOLEAN :
         IF ok
         THEN /\ watchers' = Append(watchers,
                    Watcher("api_server",
                            ProdApiServerArgs(runner_bind_map, prometheus_dir[1], tls),
                            ApiNumprocesses))
              /\ pc' = "arbiter"
              /\ UNCHANGED <<exc, tracking>>
         ELSE /\ Raise("WatcherError")
              /\ UNCHANGED watchers
    /\ UNCHANGED <<inputs, promvars, leafvars, loaded, fs_dirs, rmtree_calls, uds_path, i,
                   port_stack, circus_sockets, runner_bind_map, arbiter>>

\* arbiter = create_standalone_arbiter(watchers=watchers, sockets=list(circus_socket_map.values()))
ProdCreateArbiter ==
    /\ pc = "arbiter"
    /\ entry = "serve_production"
    /\ \E ok \in BOOLEAN :
         IF ok
         THEN /\ arbiter' = Some([watchers |-> watchers,
                                  sockets |-> DictValues(circus_socket_map),
                                  started |-> FALSE])
              /\ pc' = "track"
              /\ UNCHANGED <<exc, tracking>>
         ELSE /\ Raise("ArbiterError")
              /\ UNCHANGED arbiter
    /\ UNCHANGED <<inputs, promvars, leafvars, loaded, fs_dirs, rmtree_calls, uds_path, i,
                   port_stack, watchers, circus_socket_map, circus_sockets, runner_bind_map>>

\* with track_serve(svc, production=...):
TrackEnter ==
    /\ pc = "track"
    /\ \E ok \in BOOLEAN :
         IF ok
         THEN /\ tracking' = TRUE
              /\ pc' = "start"
              /\ UNCHANGED exc
         ELSE Raise("TrackError")
    /\ UNCHANGED <<inputs, promvars, leafvars, loaded, fs_dirs, rmtree_calls, uds_path, i,
                   port_stack, watchers, circus_socket_map, circus_sockets, runner_bind_map,
                   arbiter>>

\* arbiter.start(...) is entered: the supervisor binds the sockets, spawns
\* the processes and blocks
ArbiterStart ==
    /\ pc = "start"
    /\ arbiter' = Some([arbiter[1] EXCEPT !.started = TRUE])
    /\ pc' = "running"
    /\ UNCHANGED <<inputs, promvars, leafvars, exc, loaded, fs_dirs, rmtree_calls, uds_path, i,
                   port_stack, watchers, circus_socket_map, circus_sockets, runner_bind_map,
                   tracking>>

\* how a blocked arbiter.start ends: it returns, a termination signal makes
\* it return, or it raises
StartOutcomes == {"return", "signal", "exception"}

\* arbiter.start ends; finally: if uds_path is not None: shutil.rmtree(uds_path)
ProdArbiterExit ==
    /\ pc = "running"
    /\ entry = "serve_production"
    /\ \E outcome \in StartOutcomes :
         /\ pc' = IF outcome = "exception" THEN "raised" ELSE "done"
         /\ exc' = IF outcome = "exception" THEN "ArbiterStartError" ELSE exc
    /\ IF uds_path # None
       THEN /\ rmtree_calls' = Append(rmtree_calls, uds_path[1])
            /\ fs_dirs' = fs_dirs \ {uds_path[1]}
       ELSE UNCHANGED <<rmtree_calls, fs_dirs>>
    /\ tracking' = FALSE
    /\ UNCHANGED <<inputs, promvars, leafvars, loaded, uds_path, i, port_stack, watchers,
                   circus_socket_map, circus_sockets, runner_bind_map, arbiter>>

(* -------------------------- serve_development -------------------------- *)
\* "Add optional SSL args if they exist"
DevTlsArgs(t) ==
    (IF t["ssl_keyfile"] # None THEN <<"--ssl-keyfile", t["ssl_keyfile"][1]>> ELSE <<>>)
    \o (IF t["ssl_certfile"] # None THEN <<"--ssl-certfile", t["ssl_certfile"][1]>> ELSE <<>>)
    \o (IF t["ssl_keyfile_password"] # None
        THEN <<"--ssl-keyfile-password", t["ssl_keyfile_password"][1]>> ELSE <<>>)
    \o (IF t["ssl_version"] # None THEN <<"--ssl-version", Str(t["ssl_version"][1])>> ELSE <<>>)
    \o (IF t["ssl_cert_reqs"] # None
        THEN <<"--ssl-cert-reqs", Str(t["ssl_cert_reqs"][1])>> ELSE <<>>)
    \o (IF t["ssl_ca_certs"] # None THEN <<"--ssl-ca-certs", t["ssl_ca_certs"][1]>> ELSE <<>>)
    \o (IF t["ssl_ciphers"] # None THEN <<"--ssl-ciphers", t["ssl_ciphers"][1]>> ELSE <<>>)

DevApiServerArgs(prom_dir, t) ==
    <<"-m", SCRIPT_DEV_API_SERVER, bento_identifier,
      "--bind", FdOfSocket(API_SERVER_SOCKET),
      "--working-dir", working_dir,
      "--prometheus-dir", prom_dir>> \o DevTlsArgs(t)

\* variant: development mode also starts one watcher per runner
DevWatchersPerRunner(svc_runners, prom_dir, t) ==
    [k \in DOMAIN svc_runners |->
        Watcher("runner_" \o svc_runners[k].name, ProdRunnerArgsPosix(svc_runners[k]),
                svc_runners[k].scheduled_worker_count)]
    \o <<Watcher("dev_api_server", DevApiServerArgs(prom_dir, t), DefaultNumprocesses)>>

\* the watchers serve_development builds for a service
DevWatchers(svc_runners, prom_dir, t) ==
    <<Watcher("dev_api_server", DevApiServerArgs(prom_dir, t), DefaultNumprocesses)>>

\* the sockets serve_development builds for a service
DevSockets(svc_runners) ==
    <<TcpSocket(API_SERVER_SOCKET, ApiBind.host, ApiBind.port, ApiBind.backlog)>>

\* circus_sockets.append(...), api_server_watcher_args, watchers.append(...)
DevBuild ==
    /\ pc = "dev_build"
    /\ circus_sockets' = circus_sockets \o DevSockets(runners)
    /\ \E ok \in BOOLEAN :
         IF ok
         THEN /\ watchers' = watchers \o DevWatchers(runners, prometheus_dir[1], tls)
              /\ pc' = "arbiter"
              /\ UNCHANGED <<exc, tracking>>
         ELSE /\ Raise("WatcherError")
              /\ UNCHANGED watchers
    /\ UNCHANGED <<inputs, promvars, leafvars, loaded, fs_dirs, rmtree_calls, uds_path, i,
                   port_stack, circus_socket_map, runner_bind_map, arbiter>>

\* arbiter = create_standalone_arbiter(watchers, sockets=circus_sockets, ...)
DevCreateArbiter ==
    /\ pc = "arbiter"
    /\ entry = "serve_development"
    /\ \E ok \in BOOLEAN :
         IF ok
         THEN /\ arbiter' = Some([watchers |-> watchers, sockets |-> circus_sockets,
                                  started |-> FALSE])
              /\ pc' = "track"
              /\ UNCHANGED <<exc, tracking>>
         ELSE /\ Raise("ArbiterError")
              /\ UNCHANGED arbiter
    /\ UNCHANGED <<inputs, promvars, leafvars, loaded, fs_dirs, rmtree_calls, uds_path, i,
                   port_stack, watchers, circus_socket_map, circus_sockets, runner_bind_map>>

\* arbiter.start ends and the track_serve scope is left
DevArbiterExit ==
    /\ pc = "running"
    /\ entry = "serve_development"
    /\ \E outcome \in StartOutcomes :
         /\ pc' = IF outcome = "exception" THEN "raised" ELSE "done"
         /\ exc' = IF outcome = "exception" THEN "ArbiterStartError" ELSE exc
    /\ tracking' = FALSE
    /\ UNCHANGED <<inputs, promvars, leafvars, loaded, fs_dirs, rmtree_calls, uds_path, i,
                   port_stack, watchers, circus_socket_map, circus_sockets, runner_bind_map,
                   arbiter>>

(* ------------------------ http_api_server main ------------------------- *)
Letters == {"a","b","c","d","e","f","g","h","i","j","k","l","m","n","o","p","q","r","s",
            "t","u","v","w","x","y","z"}
Digits == {"0","1","2","3","4","5","6","7","8","9"}
SchemeChars == Letters \cup Digits \cup {"+", "-", "."}

RECURSIVE Join(_)
Join(chars) == IF chars = <<>> THEN "" ELSE Head(chars) \o Join(Tail(chars))

\* index of the first element of chars that is in set, Len(chars) + 1 if none
RECURSIVE FindFirst(_, _, _)
FindFirst(chars, set, k) ==
    IF k > Len(chars) THEN k
    ELSE IF chars[k] \in set THEN k ELSE FindFirst(chars, set, k + 1)

\* urllib.parse.urlparse(url): scheme, netloc and path of a URL
urlparse(url) ==
    LET colon == FindFirst(url, {":"}, 1)
        has_scheme == /\ colon <= Len(url)
                      /\ colon > 1
                      /\ url[1] \in Letters
                      /\ \A k \in 1 .. (colon - 1) : url[k] \in SchemeChars
        scheme == IF has_scheme THEN SubSeq(url, 1, colon - 1) ELSE <<>>
        rest == IF has_scheme THEN SubSeq(url, colon + 1, Len(url)) ELSE url
        has_netloc == Len(rest) >= 2 /\ rest[1] = "/" /\ rest[2] = "/"
        after == IF has_netloc THEN SubSeq(rest, 3, Len(rest)) ELSE rest
        stop == FindFirst(after, {"/", "?", "#"}, 1)
    IN  [scheme |-> Join(scheme),
         netloc |-> IF has_netloc THEN SubSeq(after, 1, stop - 1) ELSE <<>>,
         path |-> IF has_netloc THEN SubSeq(after, stop, Len(after)) ELSE after]

DigitValue(c) == CASE c = "0" -> 0 [] c = "1" -> 1 [] c = "2" -> 2 [] c = "3" -> 3
                   [] c = "4" -> 4 [] c = "5" -> 5 [] c = "6" -> 6 [] c = "7" -> 7
                   [] c = "8" -> 8 [] c = "9" -> 9

\* int(chars) for a string of decimal digits
RECURSIVE ParseInt(_)
ParseInt(chars) ==
    IF Len(chars) = 1 THEN DigitValue(chars[1])
    ELSE 10 * ParseInt(SubSeq(chars, 1, Len(chars) - 1)) + DigitValue(chars[Len(chars)])
IsInt(chars) == chars # <<>> /\ \A k \in DOMAIN chars : chars[k] \in Digits

\* click's default of --backlog
DefaultBacklog == 2048

\* create_circus_socket_from_uri(bind, name=...): the socket of a unix:// or
\* tcp:// address; any other scheme is refused
create_circus_socket_from_uri(uri, name) ==
    LET parsed == urlparse(uri)
        colon == FindFirst(parsed.netloc, {":"}, 1)
    IN  IF parsed.scheme \in {"file", "unix"}
        THEN Some(UnixSocket(name, Join(parsed.path), DefaultBacklog))
        ELSE IF parsed.scheme = "tcp" /\ IsInt(SubSeq(parsed.netloc, colon + 1, Len(parsed.netloc)))
        THEN Some(TcpSocket(name, Join(SubSeq(parsed.netloc, 1, colon - 1)),
                            ParseInt(SubSeq(parsed.netloc, colon + 1, Len(parsed.netloc))),
                            DefaultBacklog))
        ELSE None

\* unparse_click_params(params, ctx.command.params, factory=str): the
\* argument first, then "--option value" for every option that is not None
unparse_click_params(params_bind, params_worker_id, t) ==
    <<bento_identifier, "--bind", params_bind, "--backlog", Str(DefaultBacklog),
      "--working-dir", working_dir, "--worker-id", params_worker_id>>
    \o (IF t["ssl_keyfile"] # None THEN <<"--ssl-keyfile", t["ssl_keyfile"][1]>> ELSE <<>>)
    \o (IF t["ssl_certfile"] # None THEN <<"--ssl-certfile", t["ssl_certfile"][1]>> ELSE <<>>)
    \o (IF t["ssl_keyfile_password"] # None
        THEN <<"--ssl-keyfile-password", t["ssl_keyfile_password"][1]>> ELSE <<>>)
    \o (IF t["ssl_version"] # None THEN <<"--ssl-version", Str(t["ssl_version"][1])>> ELSE <<>>)
    \o (IF t["ssl_cert_reqs"] # None
        THEN <<"--ssl-cert-reqs", Str(t["ssl_cert_reqs"][1])>> ELSE <<>>)
    \o (IF t["ssl_ca_certs"] # None THEN <<"--ssl-ca-certs", t["ssl_ca_certs"][1]>> ELSE <<>>)
    \o (IF t["ssl_ciphers"] # None THEN <<"--ssl-ciphers", t["ssl_ciphers"][1]>> ELSE <<>>)

\* variant: "if not worker_id", which also takes worker 0 for the parent
IsStandaloneParentFalsy(wid) == wid = None \/ wid = Some(0)

\* "if worker_id is None": the standalone parent, otherwise a leaf worker
IsStandaloneParent(wid) == wid = None

\* the watcher of the standalone parent
ParentWatcher(t) ==
    Watcher("bento_api_server",
            <<"-m", "bentoml_cli.server.http_api_server">>
              \o unparse_click_params(FdOfSocket(API_SERVER_SOCKET), "$(circus.wid)", t),
            1)

\* worker_id is None: ensure_prometheus_dir()
ParentEnsurePrometheusDir ==
    /\ pc = "entry"
    /\ entry = "http_api_server"
    /\ IsStandaloneParent(worker_id)
    /\ LET r == ensure_prometheus_dir(container_dir, prom_fs, prom_err, TRUE, TRUE) IN
       /\ prom_fs' = r.fs
       /\ container_dir' = r.container
       /\ warnings' = IF r.warned THEN Append(warnings, r.result) ELSE warnings
       /\ fs_dirs' = IF r.warned THEN fs_dirs \cup {r.result} ELSE fs_dirs
       /\ IF r.raised # ""
          THEN Raise(r.raised)
          ELSE pc' = "parent_build" /\ UNCHANGED <<exc, tracking>>
    /\ UNCHANGED <<inputs, leafvars, prometheus_dir, loaded, rmtree_calls, uds_path, i,
                   port_stack, watchers, circus_socket_map, circus_sockets, runner_bind_map,
                   arbiter>>

\* circus_socket, params, watcher and arbiter of the standalone parent
ParentBuild ==
    /\ pc = "parent_build"
    /\ LET circus_socket == create_circus_socket_from_uri(bind, API_SERVER_SOCKET) IN
       IF circus_socket = None
       THEN /\ Raise("ValueError")
            /\ UNCHANGED <<circus_sockets, watchers, arbiter>>
       ELSE /\ circus_sockets' = circus_socket
            /\ \E ok \in BOOLEAN :
                 IF ok
                 THEN /\ watchers' = <<ParentWatcher(tls)>>
                      /\ arbiter' = Some([watchers |-> <<ParentWatcher(tls)>>,
                                          sockets |-> circus_socket,
                                          started |-> FALSE])
                      /\ pc' = "start"
                      /\ UNCHANGED <<exc, tracking>>
                 ELSE /\ Raise("WatcherError")
                      /\ UNCHANGED <<watchers, arbiter>>
    /\ UNCHANGED <<inputs, promvars, leafvars, loaded, fs_dirs, rmtree_calls, uds_path, i,
                   port_stack, circus_socket_map, runner_bind_map>>

\* arbiter.start() ends; return
ParentArbiterExit ==
    /\ pc = "running"
    /\ entry = "http_api_server"
    /\ \E outcome \in StartOutcomes :
         /\ pc' = IF outcome = "exception" THEN "raised" ELSE "done"
         /\ exc' = IF outcome = "exception" THEN "ArbiterStartError" ELSE exc
    /\ UNCHANGED <<inputs, promvars, leafvars, loaded, fs_dirs, rmtree_calls, uds_path, i,
                   port_stack, watchers, circus_socket_map, circus_sockets, runner_bind_map,
                   arbiter, tracking>>

\* Python truth value of an optional str / int launch parameter
TruthyStr(o) == o # None /\ o[1] # ""
TruthyInt(o) == o # None /\ o[1] # 0

\* the ssl_* keys the leaf worker adds to uvicorn_options
LeafTlsKeys(t) ==
    (IF TruthyStr(t["ssl_keyfile"]) THEN {"ssl_keyfile"} ELSE {})
    \cup (IF TruthyStr(t["ssl_certfile"]) THEN {"ssl_certfile"} ELSE {})
    \cup (IF TruthyStr(t["ssl_keyfile_password"]) THEN {"ssl_keyfile_password"} ELSE {})
    \cup (IF TruthyInt(t["ssl_version"]) THEN {"ssl_version"} ELSE {})
    \cup (IF TruthyInt(t["ssl_cert_reqs"]) THEN {"ssl_cert_reqs"} ELSE {})
    \cup (IF TruthyStr(t["ssl_ca_certs"]) THEN {"ssl_ca_certs"} ELSE {})
    \cup (IF TruthyStr(t["ssl_ciphers"]) THEN {"ssl_ciphers"} ELSE {})

\* uvicorn_options as passed to uvicorn.Config
UvicornOptions(t, plat) ==
    LET keys == {"backlog", "log_config", "workers"} \cup LeafTlsKeys(t)
                \cup (IF plat = "windows" THEN {"loop"} ELSE {})
    IN  [k \in keys |->
           CASE k = "backlog" -> DefaultBacklog
             [] k = "log_config" -> "None"
             [] k = "workers" -> 1
             [] k = "loop" -> "asyncio"
             [] OTHER -> t[k][1]]

\* worker_id is not None: the runner map is decoded and the service loaded
LeafLoad ==
    /\ pc = "entry"
    /\ entry = "http_api_server"
    /\ ~IsStandaloneParent(worker_id)
    /\ loaded' = TRUE
    /\ pc' = "leaf_options"
    /\ UNCHANGED <<inputs, promvars, leafvars, exc, fs_dirs, rmtree_calls, uds_path, i,
                   port_stack, watchers, circus_socket_map, circus_sockets, runner_bind_map,
                   arbiter, tracking>>

\* variant: the scheme of the bind address is not checked
AnySchemeAccepted(parsed) == TRUE

\* assert parsed.scheme == "fd"
FdSchemeAsserted(parsed) == parsed.scheme = "fd"

\* parsed = urlparse(bind); uvicorn_options; assert parsed.scheme == "fd"
LeafOptions ==
    /\ pc = "leaf_options"
    /\ uvicorn_options' = Some(UvicornOptions(tls, platform))
    /\ IF FdSchemeAsserted(urlparse(bind))
       THEN pc' = "leaf_serve" /\ UNCHANGED <<exc, tracking>>
       ELSE Raise("AssertionError")
    /\ UNCHANGED <<inputs, promvars, served, loaded, fs_dirs, rmtree_calls, uds_path, i,
                   port_stack, watchers, circus_socket_map, circus_sockets, runner_bind_map,
                   arbiter>>

\* fd = int(parsed.netloc); sock = socket.socket(fileno=fd); uvicorn serves on it
LeafServe ==
    /\ pc = "leaf_serve"
    /\ IF IsInt(urlparse(bind).netloc)
       THEN /\ served' = Some([fd |-> ParseInt(urlparse(bind).netloc),
                               options |-> uvicorn_options[1]])
            /\ pc' = "done"
            /\ UNCHANGED <<exc, tracking>>
       ELSE Raise("ValueError") /\ UNCHANGED served
    /\ UNCHANGED <<inputs, promvars, uvicorn_options, loaded, fs_dirs, rmtree_calls, uds_path, i,
                   port_stack, watchers, circus_socket_map, circus_sockets, runner_bind_map,
                   arbiter>>

(* ---------------------------- specification ---------------------------- *)
Next ==
    \/ Load
    \/ ServeEnsurePrometheusDir
    \/ ProdMkdtemp
    \/ ProdRunnerPosix
    \/ ProdWindowsEnter
    \/ ProdRunnerWindows
    \/ ProdWindowsExit
    \/ ProdUnsupportedPlatform
    \/ ProdApiServer
    \/ ProdCreateArbiter
    \/ TrackEnter
    \/ ArbiterStart
    \/ ProdArbiterExit
    \/ DevBuild
    \/ DevCreateArbiter
    \/ DevArbiterExit
    \/ ParentEnsurePrometheusDir
    \/ ParentBuild
    \/ ParentArbiterExit
    \/ LeafLoad
    \/ LeafOptions
    \/ LeafServe

Spec == Init /\ [][Next]_vars

(* ============================ properties =============================== *)
Range(f) == {f[k] : k \in DOMAIN f}
\* the values that follow an occurrence of flag in an argument vector
ValuesAfter(args, flag) == {args[k + 1] : k \in {j \in 1 .. (Len(args) - 1) : args[j] = flag}}
Finished == pc \in {"done", "raised"}
RunnerNameSeq == [k \in DOMAIN runners |-> runners[k].name]
DistinctNames == \A a, b \in DOMAIN runners : a # b => runners[a].name # runners[b].name
SocketsNamed(socks, name) == {k \in DOMAIN socks : socks[k].name = name}
WatchersNamed(ws, name) == {k \in DOMAIN ws : ws[k].name = name}

\* C1: for a service whose runner names are pairwise distinct, the arbiter of
\* serve_production is given exactly one socket and one watcher per runner
\* plus exactly one '_bento_api_server' socket and one api_server watcher,
\* and runner_bind_map has one entry per runner.
C1_OneSocketAndWatcherPerRunner ==
    (entry = "serve_production" /\ arbiter # None /\ DistinctNames) =>
        /\ Len(arbiter[1].sockets) = Len(runners) + 1
        /\ Len(arbiter[1].watchers) = Len(runners) + 1
        /\ Cardinality(SocketsNamed(arbiter[1].sockets, API_SERVER_SOCKET)) = 1
        /\ Cardinality(WatchersNamed(arbiter[1].watchers, "api_server")) = 1
        /\ \A r \in DOMAIN runners :
              /\ Cardinality(SocketsNamed(arbiter[1].sockets, runners[r].name)) = 1
              /\ Cardinality(WatchersNamed(arbiter[1].watchers, "runner_" \o runners[r].name)) = 1
        /\ Len(runner_bind_map) = Len(runners)

\* C2: when serve_production on POSIX fails the socket-path length check, no
\* socket has been created and no socket directory exists afterwards.
C2_PathTooLongCreatesNothing ==
    (entry = "serve_production" /\ platform = "posix" /\ exc = "AssertionError") =>
        /\ fs_dirs \cap UdsTmpDirs = {}
        /\ circus_socket_map = <<>>

\* C3: once serve_production has created the socket directory, the directory
\* has been removed exactly once whenever serve_production has ended, be it
\* by return, by a termination signal or by an exception at any later step.
C3_SocketDirRemovedOnEveryExit ==
    (entry = "serve_production" /\ uds_path # None /\ Finished) =>
        /\ rmtree_calls = <<uds_path[1]>>
        /\ uds_path[1] \notin fs_dirs

\* C4: serve_development registers exactly one socket (the API server's) and
\* exactly one watcher (dev_api_server, one process) whatever the number of
\* runners; no runner gets a socket, a watcher or a bind-map entry.
C4_DevOneSocketOneWatcher ==
    entry = "serve_development" =>
        /\ circus_socket_map = <<>> /\ runner_bind_map = <<>>
        /\ \A k \in DOMAIN watchers : watchers[k].name = "dev_api_server"
        /\ \A k \in DOMAIN circus_sockets : circus_sockets[k].name = API_SERVER_SOCKET
        /\ arbiter # None =>
              /\ Len(arbiter[1].sockets) = 1
              /\ arbiter[1].sockets[1].name = API_SERVER_SOCKET
              /\ Len(arbiter[1].watchers) = 1
              /\ arbiter[1].watchers[1].name = "dev_api_server"
              /\ arbiter[1].watchers[1].numprocesses = 1

C4_Witness ==
    /\ entry = "serve_development"
    /\ Len(runners) = 2
    /\ arbiter # None /\ arbiter[1].started

\* the command-line flag of each optional TLS parameter
FlagOf(p) ==
    CASE p = "ssl_keyfile" -> "--ssl-keyfile"
      [] p = "ssl_certfile" -> "--ssl-certfile"
      [] p = "ssl_keyfile_password" -> "--ssl-keyfile-password"
      [] p = "ssl_version" -> "--ssl-version"
      [] p = "ssl_cert_reqs" -> "--ssl-cert-reqs"
      [] p = "ssl_ca_certs" -> "--ssl-ca-certs"
      [] p = "ssl_ciphers" -> "--ssl-ciphers"
\* the text of a TLS value on the command line
TextOf(p, v) == IF p \in IntTLSParams THEN (CASE v = 0 -> "0" [] v = 2 -> "2") ELSE v
TlsForwarded(args) ==
    \A p \in TLSParams :
        IF tls[p] # None
        THEN ValuesAfter(args, FlagOf(p)) = {TextOf(p, tls[p][1])}
        ELSE FlagOf(p) \notin Range(args)

\* C5: the argument vector of the API-server watcher of serve_production and
\* of serve_development holds, for each TLS parameter that is set, its flag
\* immediately followed by its value, and no flag of a parameter that is not
\* set.
C5_TlsFlagsForwardedOnlyWhenSet ==
    \A k \in DOMAIN watchers :
        watchers[k].name \in {"api_server", "dev_api_server"} => TlsForwarded(watchers[k].args)

C5_Witness ==
    /\ entry = "serve_production"
    /\ tls = OnlyKeyAndCert
    /\ \E k \in DOMAIN watchers :
          /\ watchers[k].name = "api_server"
          /\ "--ssl-keyfile" \in Range(watchers[k].args)
          /\ "--ssl-ciphers" \notin Range(watchers[k].args)

\* the configured metrics directory could not be created or cleaned
MetricsDirFailed == prom_err # "none" \/ prom_fs = "file"

\* C6: when the configured metrics directory cannot be created or cleaned,
\* ensure_prometheus_dir() does not raise: it returns a freshly created
\* alternate directory and records a warning, and the API-server watcher's
\* --prometheus-dir argument is that alternate directory.
C6_MetricsDirFallback ==
    (entry \in {"serve_production", "serve_development"}
        /\ pc \notin {"entry", "prometheus"} /\ MetricsDirFailed) =>
        /\ exc # "RuntimeError"
        /\ prometheus_dir = Some(PrometheusAlternative)
        /\ PrometheusAlternative \in fs_dirs
        /\ PrometheusAlternative # PrometheusConfigured
        /\ Len(warnings) = 1
        /\ \A k \in DOMAIN watchers :
              watchers[k].name \in {"api_server", "dev_api_server"} =>
                 ValuesAfter(watchers[k].args, "--prometheus-dir") = {PrometheusAlternative}

C6_Witness ==
    /\ entry = "serve_production"
    /\ prom_fs = "missing" /\ prom_err = "OSError"
    /\ \E k \in DOMAIN watchers : watchers[k].name = "api_server"
    /\ arbiter # None

\* C7: http_api_server launched without a worker id only builds one
\* single-process watcher and the one socket of its bind argument, gives
\* them to a fresh arbiter, starts it and returns when start returns; it
\* never loads the service or serves.  Launched with a worker id (0
\* included) it never creates an arbiter, a watcher or a socket.
C7_RoleFromWorkerIdentity ==
    entry = "http_api_server" =>
        /\ worker_id = None =>
              /\ ~loaded /\ served = None /\ uvicorn_options = None
              /\ arbiter # None =>
                    /\ Len(arbiter[1].watchers) = 1
                    /\ arbiter[1].watchers[1].numprocesses = 1
                    /\ Len(arbiter[1].sockets) = 1
                    /\ arbiter[1].sockets[1].name = API_SERVER_SOCKET
                    /\ bind = BindTcp =>
                          /\ arbiter[1].sockets[1].kind = "tcp"
                          /\ arbiter[1].sockets[1].host = "0.0.0.0"
                          /\ arbiter[1].sockets[1].port = 3000
                    /\ bind = BindUnix =>
                          /\ arbiter[1].sockets[1].kind = "unix"
                          /\ arbiter[1].sockets[1].path = "/tmp/a.sock"
              /\ pc = "done" => (arbiter # None /\ arbiter[1].started)
        /\ worker_id # None =>
              /\ arbiter = None /\ watchers = <<>> /\ circus_sockets = <<>>

C7_Witness ==
    /\ entry = "http_api_server"
    /\ worker_id = None
    /\ bind = BindTcp
    /\ pc = "done"
    /\ arbiter # None /\ arbiter[1].started

\* C8: the options a leaf API-server worker hands to uvicorn contain a TLS
\* option, with the launch parameter's value, exactly when that launch
\* parameter was supplied.
C8_LeafTlsOptionsIffSupplied ==
    served # None =>
        \A p \in TLSParams :
            /\ (p \in DOMAIN served[1].options) <=> (tls[p] # None)
            /\ (p \in DOMAIN served[1].options) => served[1].options[p] = tls[p][1]

\* C9: every watcher given to an arbiter has as its --bind argument the
\* substitution fd://$(circus.sockets.<name>) of a socket <name> that is
\* among the sockets given to the same arbiter.
C9_WatchersBindByFdSubstitution ==
    arbiter # None =>
        \A k \in DOMAIN arbiter[1].watchers :
            LET binds == ValuesAfter(arbiter[1].watchers[k].args, "--bind") IN
            /\ Cardinality(binds) = 1
            /\ \A b \in binds :
                  \E j \in DOMAIN arbiter[1].sockets :
                      b = "fd://$(circus.sockets." \o arbiter[1].sockets[j].name \o ")"

C9_Witness ==
    /\ entry = "serve_production"
    /\ Len(runners) = 2
    /\ arbiter # None /\ ~arbiter[1].started
    /\ Len(arbiter[1].watchers) = 3

\* the connectable address of a registered socket
AddressOf(sock) ==
    IF sock.kind = "unix" THEN "unix://" \o sock.path
    ELSE "tcp://" \o sock.host \o ":" \o (CASE sock.port = 3000 -> "3000"
                                           [] sock.port = 50001 -> "50001"
                                           [] sock.port = 50002 -> "50002"
                                           [] sock.port = 50003 -> "50003"
                                           [] sock.port = 50004 -> "50004"
                                           [] OTHER -> "?")
ApiServerAddresses == {"0.0.0.0:3000", "tcp://0.0.0.0:3000", "http://0.0.0.0:3000"}

\* C10: in serve_production the api_server watcher is built after every
\* runner's socket and watcher; the runner map in its arguments has one
\* entry per runner, whose address is that of the socket registered under
\* the runner's name; no runner watcher's arguments hold the API server's
\* address.
C10_RunnerMapCompleteAndRegistered ==
    (entry = "serve_production" /\ \E k \in DOMAIN watchers : watchers[k].name = "api_server") =>
        /\ watchers[Len(watchers)].name = "api_server"
        /\ Len(watchers) = Len(runners) + 1
        /\ Len(runner_bind_map) = Len(runners)
        /\ ValuesAfter(watchers[Len(watchers)].args, "--runner-map") = {JsonDumps(runner_bind_map)}
        /\ \A r \in DOMAIN runners :
              /\ watchers[r].name = "runner_" \o runners[r].name
              /\ Range(watchers[r].args) \cap ApiServerAddresses = {}
              /\ DictHas(runner_bind_map, runners[r].name)
              /\ \A j \in DOMAIN circus_socket_map :
                    circus_socket_map[j][1] = runners[r].name =>
                        DictGet(runner_bind_map, runners[r].name) = AddressOf(circus_socket_map[j][2])
        /\ arbiter # None =>
              \A r \in DOMAIN runners :
                  \E j \in DOMAIN arbiter[1].sockets :
                      /\ arbiter[1].sockets[j].name = runners[r].name
                      /\ AddressOf(arbiter[1].sockets[j]) = DictGet(runner_bind_map, runners[r].name)

\* C11: a leaf API-server worker serves only on the socket of the file
\* descriptor named by an fd:// bind argument and creates no socket of its
\* own; with a bind argument of any other form (host:port, tcp://, unix://)
\* it ends with an error and nothing has been given to uvicorn.
C11_LeafServesOnlyInheritedFd ==
    (entry = "http_api_server" /\ worker_id # None) =>
        /\ circus_sockets = <<>> /\ circus_socket_map = <<>> /\ arbiter = None
        /\ served # None => (bind = BindFd /\ served[1].fd = 7)
        /\ (bind # BindFd /\ Finished) => (pc = "raised" /\ exc # "" /\ served = None)
        /\ (bind = BindFd /\ Finished) => (pc = "done" /\ served # None)

C11_Witness ==
    /\ entry = "http_api_server"
    /\ worker_id = Some(0)
    /\ bind = BindTcp
    /\ pc = "raised" /\ exc = "AssertionError"
    /\ served = None

C11_WitnessServed ==
    /\ entry = "http_api_server"
    /\ worker_id = Some(1)
    /\ bind = BindFd
    /\ served # None /\ served[1].fd = 7

\* a runner name is used twice or is the API server's socket name
ConflictingNames ==
    \/ ~DistinctNames
    \/ \E r \in DOMAIN runners : runners[r].name = API_SERVER_SOCKET

\* C12: when two runners have the same name, or a runner is named
\* '_bento_api_server', serve_production fails before the arbiter is
\* started: the arbiter never starts and serve_production never returns
\* normally.
C12_ConflictingNamesAreFatal ==
    (entry = "serve_production" /\ ConflictingNames) =>
        /\ arbiter # None => ~arbiter[1].started
        /\ pc \notin {"running", "done"}
====
